---- MODULE Spec2Model ----
(***************************************************************************)
(* Model of the robstride CAN client (src/robstride/client.py): the        *)
(* arbitration-id codec, the frame builder, the receive/retry loop, the    *)
(* response validation and the five transactions of class Client.          *)
(*                                                                         *)
(* The CAN bus is the environment.  bus.recv() either times out (None) or  *)
(* returns an error frame or a data frame.  The model keeps the upcoming   *)
(* results of bus.recv() as a queue of tokens `bus`; a frame that arrives  *)
(* after a timeout, or after the client stopped reading, stays queued and  *)
(* is returned by a later bus.recv().  Every token carries the number of   *)
(* the request that caused it (a ghost tag, invisible to the client).      *)
(***************************************************************************)
EXTENDS Integers, Sequences, FiniteSets, TLC

VARIABLES
    self_retry_count,     \* Client.retry_count (constructor argument)
    host_can_id,          \* Client.host_can_id (constructor argument)
    recv_count,           \* Client._recv_count
    recv_error_count,     \* Client._recv_error_count
    pc,                   \* "idle", or "recv": blocked in bus.recv inside _recv
    cur,                  \* arguments and locals of the running operation
    retry_count,          \* local retry_count of _recv
    resp,                 \* local resp of _recv / of the operation
    result,               \* how the last operation ended: return value or exception
    bus,                  \* upcoming results of bus.recv (queue of tokens)
    sent,                 \* frames passed to bus.send by the current operation
    hist,                 \* ghost: what bus.recv returned to the current operation
    seq,                  \* ghost: number of operations started so far
    count_at_call,        \* ghost: recv_count when the operation started
    error_count_at_call,  \* ghost: recv_error_count when the operation started
    codec_in,             \* codec bench: the arguments given to the encoder
    codec_out             \* codec bench: the decoded fields of the encoded identifier

client_vars == <<self_retry_count, host_can_id, recv_count, recv_error_count, pc, cur,
                 retry_count, resp, result, bus, sent, hist, seq, count_at_call,
                 error_count_at_call>>

codec_vars == <<codec_in, codec_out>>

vars == <<client_vars, codec_vars>>

(***************************************************************************)
(* Bounds of the model.                                                    *)
(***************************************************************************)
MaxRetry == 1      \* retry_count is drawn from 0..MaxRetry
MaxQueue == 3      \* at most this many upcoming bus.recv results are queued
MaxOps == 2        \* at most this many operations are started

(***************************************************************************)
(* Bit operations on non-negative integers, as Python's &, |, << and >>.   *)
(***************************************************************************)
RECURSIVE BitAnd(_, _)
BitAnd(a, b) ==
    IF a = 0 \/ b = 0 THEN 0
    ELSE (a % 2) * (b % 2) + 2 * BitAnd(a \div 2, b \div 2)

RECURSIVE BitOr(_, _)
BitOr(a, b) ==
    IF a = 0 THEN b
    ELSE IF b = 0 THEN a
    ELSE (IF a % 2 = 1 \/ b % 2 = 1 THEN 1 ELSE 0) + 2 * BitOr(a \div 2, b \div 2)

Shl(a, n) == a * 2^n

Shr(a, n) == a \div 2^n

(***************************************************************************)
(* Enumerations.                                                           *)
(***************************************************************************)
RunMode == {0, 1, 2, 3}

MotorMsg_Feedback == 2
MotorMsg_Enable == 3
MotorMsg_Disable == 4
MotorMsg_SetID == 7
MotorMsg_ReadParam == 17
MotorMsg_WriteParam == 18

MotorMode == {0, 1, 2}

MotorError == {1, 2, 4, 8, 16, 32}

(***************************************************************************)
(* The parameter table.                                                    *)
(***************************************************************************)
params ==
    << <<"run_mode", 28677>>, <<"iq_ref", 28678>>, <<"spd_ref", 28682>>,
       <<"limit_torque", 28683>>, <<"cur_kp", 28688>>, <<"cur_ki", 28689>>,
       <<"cur_fit_gain", 28692>>, <<"loc_ref", 28694>>, <<"limit_spd", 28695>>,
       <<"limit_cur", 28696>>, <<"mechpos", 28697>>, <<"iqf", 28698>>,
       <<"mechvel", 28699>>, <<"vbus", 28700>>, <<"loc_kp", 28702>>,
       <<"spd_kp", 28703>>, <<"spd_ki", 28704>>, <<"spd_filt_gain", 28705>> >>

ParamNames == {params[i][1] : i \in 1..Len(params)}

param_ids_by_name ==
    [n \in ParamNames |-> params[CHOOSE i \in 1..Len(params) : params[i][1] = n][2]]

RUN_MODE_ID == 28677    \* 0x7005

(***************************************************************************)
(* Values.  A parameter argument is a name or an integer; a parameter      *)
(* value is a RunMode member, an int, or a float v * 2^e (v an integer).   *)
(***************************************************************************)
StrParam(s) == [t |-> "str", s |-> s, i |-> 0]
IntParam(i) == [t |-> "int", s |-> "", i |-> i]

RunModeValue(m) == [t |-> "RunMode", v |-> m, e |-> 0]
IntValue(n) == [t |-> "int", v |-> n, e |-> 0]
FloatValue(v, e) == [t |-> "float", v |-> v, e |-> e]
FloatSpecial(v) == [t |-> "float_special", v |-> v, e |-> 0]
NoneValue == [t |-> "None", v |-> 0, e |-> 0]
RatioValue(n, d) == [t |-> "ratio", v |-> n, e |-> d]      \* the quotient n / d

(***************************************************************************)
(* struct.pack('<f', x) and struct.unpack('<f', b): the IEEE-754 binary32  *)
(* encoding, little-endian.  A float is v * 2^e with v an integer of less  *)
(* than 24 bits (so that no rounding happens), written with v odd or 0.    *)
(***************************************************************************)
RECURSIVE HighBit(_)
HighBit(a) == IF a <= 1 THEN 0 ELSE 1 + HighBit(a \div 2)

RECURSIVE Normalise(_, _)
Normalise(v, e) ==
    IF v = 0 THEN FloatValue(0, 0)
    ELSE IF v % 2 = 0 THEN Normalise(v \div 2, e + 1)
    ELSE FloatValue(v, e)

Abs(x) == IF x < 0 THEN -x ELSE x

FloatBytes(sign, E, frac) ==
    << frac % 256,
       (frac \div 256) % 256,
       (E % 2) * 128 + (frac \div 65536),
       sign * 128 + (E \div 2) >>

struct_pack_f(x) ==
    IF x.t \notin {"float", "int"}
    THEN [exc |-> "struct.error", bytes |-> <<>>]
    ELSE LET a == Abs(x.v)
             sign == IF x.v < 0 THEN 1 ELSE 0
             p == HighBit(a)
             unbiased == p + x.e
         IN  IF a = 0 THEN [exc |-> "", bytes |-> <<0, 0, 0, 0>>]
             ELSE IF unbiased > 127
             THEN [exc |-> "OverflowError", bytes |-> <<>>]
             ELSE IF unbiased >= -126
             THEN [exc |-> "",
                   bytes |-> FloatBytes(sign, unbiased + 127, (a - 2^p) * 2^(23 - p))]
             ELSE [exc |-> "", bytes |-> FloatBytes(sign, 0, a * 2^(x.e + 149))]

struct_unpack_f(b) ==
    LET sign == b[4] \div 128
        E == (b[4] % 128) * 2 + (b[3] \div 128)
        frac == (b[3] % 128) * 65536 + b[2] * 256 + b[1]
        sgn(m) == IF sign = 1 THEN -m ELSE m
    IN  IF E = 255 THEN FloatSpecial(IF frac = 0 THEN sgn(1) ELSE 0)
        ELSE IF E = 0 THEN Normalise(sgn(frac), -149)
        ELSE Normalise(sgn(8388608 + frac), E - 150)

\* struct.unpack('<H', b)[0] and struct.unpack('>H', b)[0] on two bytes
struct_unpack_H_le(b) == b[1] + 256 * b[2]

struct_unpack_H_be(b) == 256 * b[1] + b[2]

\* bytes([...]) raises ValueError unless every item is in range(256)
IsBytes(s) == \A i \in 1..Len(s) : s[i] >= 0 /\ s[i] <= 255

(***************************************************************************)
(* Frames (can.Message).                                                   *)
(***************************************************************************)
Message(arbitration_id, data) ==
    [arbitration_id |-> arbitration_id, data |-> data, is_error_frame |-> FALSE]

ErrorFrame(arbitration_id) ==
    [arbitration_id |-> arbitration_id, data |-> <<0, 0, 0, 0, 0, 0, 0, 0>>,
     is_error_frame |-> TRUE]

NoFrame == [arbitration_id |-> -1, data |-> <<>>, is_error_frame |-> FALSE]

Zero8 == <<0, 0, 0, 0, 0, 0, 0, 0>>

(***************************************************************************)
(* The arbitration-id codec.                                               *)
(***************************************************************************)
rs_msg(msg_type, id_data_1, id_data_2, data) ==
    Message(id_data_2 + Shl(id_data_1, 8) + Shl(msg_type, 24), data)

\* Mutant: the motor id field is masked but not shifted down.
parse_resp_abitration_id_unshifted(aid) ==
    [msg_type |-> Shr(BitAnd(aid, 520093696), 24),
     msg_motor_id |-> BitAnd(aid, 65280),
     host_id |-> BitAnd(aid, 255)]

parse_resp_abitration_id(aid) ==
    [msg_type |-> Shr(BitAnd(aid, 520093696), 24),      \* aid & 0x1F000000
     msg_motor_id |-> Shr(BitAnd(aid, 65280), 8),       \* aid & 0xFF00
     host_id |-> BitAnd(aid, 255)]                      \* aid & 0xFF

\* Mutant: the motor id of the response is not compared.
parse_and_validate_no_motor_check(r, expected_msg_type, expected_motor_id, host) ==
    LET p == parse_resp_abitration_id(r.arbitration_id)
    IN  IF p.msg_type # expected_msg_type THEN "Invalid msg_type"
        ELSE IF p.host_id # host THEN "Invalid host CAN ID"
        ELSE ""

\* The message of the exception raised, or "" when the identifier is accepted.
parse_and_validate_resp_arbitration_id(r, expected_msg_type, expected_motor_id, host) ==
    LET p == parse_resp_abitration_id(r.arbitration_id)
    IN  IF p.msg_type # expected_msg_type THEN "Invalid msg_type"
        ELSE IF p.host_id # host THEN "Invalid host CAN ID"
        ELSE IF p.msg_motor_id # expected_motor_id THEN "Invalid motor ID received"
        ELSE ""

(***************************************************************************)
(* Results of operations.  Scaled readings are exact rationals <<n, d>>;   *)
(* the angle is a rational multiple of pi.                                 *)
(***************************************************************************)
FeedbackResp(servo_id, errors, mode, angle, velocity, torque, temp) ==
    [servo_id |-> servo_id, errors |-> errors, mode |-> mode, angle |-> angle,
     velocity |-> velocity, torque |-> torque, temp |-> temp]

NoFeedback == FeedbackResp(-1, <<>>, -1, <<0, 1>>, <<0, 1>>, <<0, 1>>, <<0, 1>>)

Return(feedback, value) ==
    [status |-> "return", exc |-> "", arg |-> NoFrame, feedback |-> feedback,
     value |-> value]

Raise(exc, frame) ==
    [status |-> "raise", exc |-> exc, arg |-> frame, feedback |-> NoFeedback,
     value |-> NoneValue]

NoResult ==
    [status |-> "none", exc |-> "", arg |-> NoFrame, feedback |-> NoFeedback,
     value |-> NoneValue]

\* Mutant: the mask covers six bits, one per MotorError (aid & 0x3F0000).
error_bits_of_six(aid) == Shr(BitAnd(aid, 4128768), 16)

error_bits_of(aid) == Shr(BitAnd(aid, 2031616), 16)     \* (aid & 0x1F0000) >> 16

mode_bit_of(aid) == Shr(BitAnd(aid, 4194304), 22)       \* (aid & 0x400000) >> 22

\* Mutant: the reply is expected to carry the WriteParam type.
feedback_msg_type_write == MotorMsg_WriteParam

\* The message type _parse_feedback_resp expects
feedback_msg_type == MotorMsg_Feedback

RECURSIVE errors_from(_, _)
errors_from(i, error_bits) ==
    IF i > 5 THEN <<>>
    ELSE (IF BitAnd(Shl(1, i), error_bits) # 0 THEN <<Shl(1, i)>> ELSE <<>>)
         \o errors_from(i + 1, error_bits)

Scaled(raw, range) == <<raw * range - (range \div 2) * 65535, 65535>>

\* Mutant: the velocity range of model 1 is used for every model.
velocity_range_fixed(motor_model) == 88

velocity_range_of(motor_model) == IF motor_model = 1 THEN 88 ELSE 30

torque_range_of(motor_model) == IF motor_model = 1 THEN 34 ELSE 240

parse_feedback_resp(r, motor_id, motor_model, host) ==
    LET bad == parse_and_validate_resp_arbitration_id(r, feedback_msg_type, motor_id, host)
        aid == r.arbitration_id
        error_bits == error_bits_of(aid)
        errors == errors_from(0, error_bits)
        mode == mode_bit_of(aid)
        angle_raw == struct_unpack_H_be(SubSeq(r.data, 1, 2))
        velocity_raw == struct_unpack_H_be(SubSeq(r.data, 3, 4))
        velocity_range == velocity_range_of(motor_model)
        torque_raw == struct_unpack_H_be(SubSeq(r.data, 5, 6))
        torque_range == torque_range_of(motor_model)
        temp_raw == struct_unpack_H_be(SubSeq(r.data, 7, 8))
    IN  IF bad # "" THEN Raise(bad, r)
        ELSE IF \E i \in 1..Len(errors) : errors[i] \notin MotorError
        THEN Raise("ValueError", NoFrame)
        ELSE IF mode \notin MotorMode THEN Raise("ValueError", NoFrame)
        ELSE Return(FeedbackResp(motor_id, errors, mode,
                                 <<angle_raw * 8 - 4 * 65535, 65535>>,
                                 Scaled(velocity_raw, velocity_range),
                                 Scaled(torque_raw, torque_range),
                                 <<temp_raw, 10>>),
                    NoneValue)

\* Mutant: a name that is not in the table is looked up with a default
\* (param_ids_by_name.get(param_id, 0)) instead of raising.
normalize_param_id_default(param_id) ==
    IF param_id.t = "str"
    THEN IF param_id.s \in DOMAIN param_ids_by_name
         THEN [exc |-> "", id |-> param_ids_by_name[param_id.s]]
         ELSE [exc |-> "", id |-> 0]
    ELSE [exc |-> "", id |-> param_id.i]

normalize_param_id(param_id) ==
    IF param_id.t = "str"
    THEN IF param_id.s \in DOMAIN param_ids_by_name
         THEN [exc |-> "", id |-> param_ids_by_name[param_id.s]]
         ELSE [exc |-> "KeyError", id |-> -1]
    ELSE [exc |-> "", id |-> param_id.i]

(***************************************************************************)
(* Frame builder: the payloads of read_param and write_param.              *)
(***************************************************************************)
read_param_data(param_id) ==
    <<BitAnd(param_id, 255), Shr(param_id, 8), 0, 0, 0, 0, 0, 0>>

\* Mutant: run_mode is packed as a float like every other parameter.
write_param_data_always_float(param_id, param_value) ==
    LET head == <<BitAnd(param_id, 255), Shr(param_id, 8), 0, 0>>
        packed == struct_pack_f(IF param_value.t = "RunMode"
                                THEN IntValue(param_value.v) ELSE param_value)
    IN  IF ~IsBytes(head) THEN [exc |-> "ValueError", data |-> <<>>]
        ELSE IF packed.exc # "" THEN [exc |-> packed.exc, data |-> <<>>]
        ELSE [exc |-> "", data |-> head \o packed.bytes]

\* Mutant: int_value is initialised to 0, so a run_mode value of another type
\* is encoded as 0 instead of leaving int_value unbound.
write_param_data_int_default(param_id, param_value) ==
    LET head == <<BitAnd(param_id, 255), Shr(param_id, 8), 0, 0>>
        packed == struct_pack_f(param_value)
    IN  IF ~IsBytes(head) THEN [exc |-> "ValueError", data |-> <<>>]
        ELSE IF param_id = RUN_MODE_ID
        THEN IF param_value.t \notin {"RunMode", "int"}
             THEN [exc |-> "", data |-> head \o <<0, 0, 0, 0>>]
             ELSE IF ~IsBytes(<<param_value.v, 0, 0, 0>>)
             THEN [exc |-> "ValueError", data |-> <<>>]
             ELSE [exc |-> "", data |-> head \o <<param_value.v, 0, 0, 0>>]
        ELSE IF packed.exc # "" THEN [exc |-> packed.exc, data |-> <<>>]
        ELSE [exc |-> "", data |-> head \o packed.bytes]

\* [exc, data]: the exception raised while building the payload, or the payload
write_param_data(param_id, param_value) ==
    LET head == <<BitAnd(param_id, 255), Shr(param_id, 8), 0, 0>>
        packed == struct_pack_f(param_value)
    IN  IF ~IsBytes(head) THEN [exc |-> "ValueError", data |-> <<>>]
        ELSE IF param_id = RUN_MODE_ID
        THEN IF param_value.t \notin {"RunMode", "int"}
             THEN [exc |-> "UnboundLocalError", data |-> <<>>]
             ELSE IF ~IsBytes(<<param_value.v, 0, 0, 0>>)
             THEN [exc |-> "ValueError", data |-> <<>>]
             ELSE [exc |-> "", data |-> head \o <<param_value.v, 0, 0, 0>>]
        ELSE IF packed.exc # "" THEN [exc |-> packed.exc, data |-> <<>>]
        ELSE [exc |-> "", data |-> head \o packed.bytes]

(***************************************************************************)
(* What each operation does with the frame _recv returned.                 *)
(***************************************************************************)
\* Mutant: the echoed parameter id is checked before the arbitration id.
read_param_tail_echo_first(r, motor_id, param_id, host) ==
    LET bad == parse_and_validate_resp_arbitration_id(r, MotorMsg_ReadParam, motor_id, host)
        resp_param_id == struct_unpack_H_le(SubSeq(r.data, 1, 2))
    IN  IF resp_param_id # param_id THEN Raise("Invalid param id", NoFrame)
        ELSE IF bad # "" THEN Raise(bad, r)
        ELSE IF param_id = RUN_MODE_ID
        THEN IF r.data[5] \in RunMode
             THEN Return(NoFeedback, RunModeValue(r.data[5]))
             ELSE Raise("ValueError", NoFrame)
        ELSE Return(NoFeedback, struct_unpack_f(SubSeq(r.data, 5, 8)))

read_param_tail(r, motor_id, param_id, host) ==
    LET bad == parse_and_validate_resp_arbitration_id(r, MotorMsg_ReadParam, motor_id, host)
        resp_param_id == struct_unpack_H_le(SubSeq(r.data, 1, 2))
    IN  IF bad # "" THEN Raise(bad, r)
        ELSE IF resp_param_id # param_id THEN Raise("Invalid param id", NoFrame)
        ELSE IF param_id = RUN_MODE_ID
        THEN IF r.data[5] \in RunMode
             THEN Return(NoFeedback, RunModeValue(r.data[5]))
             ELSE Raise("ValueError", NoFrame)
        ELSE Return(NoFeedback, struct_unpack_f(SubSeq(r.data, 5, 8)))

\* Mutant: update_id checks the reply like enable and disable do.
Finish_update_id_validated(c, r, host) ==
    IF c.op \in {"enable", "disable", "write_param", "update_id"}
    THEN parse_feedback_resp(r, c.motor_id, c.motor_model, host)
    ELSE read_param_tail(r, c.motor_id, c.param_id, host)

Finish(c, r, host) ==
    IF c.op \in {"enable", "disable", "write_param"}
    THEN parse_feedback_resp(r, c.motor_id, c.motor_model, host)
    ELSE IF c.op = "read_param"
    THEN read_param_tail(r, c.motor_id, c.param_id, host)
    ELSE Return(NoFeedback, NoneValue)                   \* update_id

(***************************************************************************)
(* Inputs: the calls made on the client and the frames the bus delivers.   *)
(***************************************************************************)
DefaultHostCanId == 170       \* 0xAA

Call(op, motor_id, motor_model, new_motor_id, param, value) ==
    [op |-> op, motor_id |-> motor_id, motor_model |-> motor_model,
     new_motor_id |-> new_motor_id, param |-> param, param_id |-> -1,
     value |-> value]

NoCall == Call("", 0, 0, 0, IntParam(0), NoneValue)

EnableCalls ==
    {Call("enable", 1, 1, 0, IntParam(0), NoneValue),
     Call("enable", 2, 2, 0, IntParam(0), NoneValue)}

DisableCalls ==
    {Call("disable", 1, 1, 0, IntParam(0), NoneValue),
     Call("disable", 2, 1, 0, IntParam(0), NoneValue)}

UpdateIdCalls ==
    {Call("update_id", 1, 0, 3, IntParam(0), NoneValue),
     Call("update_id", 2, 0, 255, IntParam(0), NoneValue)}

ReadParamCalls ==
    {Call("read_param", 1, 0, 0, IntParam(RUN_MODE_ID), NoneValue),
     Call("read_param", 2, 0, 0, StrParam("run_mode"), NoneValue),
     Call("read_param", 1, 0, 0, StrParam("mechvel"), NoneValue),
     Call("read_param", 1, 0, 0, StrParam("nonexistent"), NoneValue)}

WriteParamCalls ==
    {Call("write_param", 1, 1, 0, IntParam(RUN_MODE_ID), RunModeValue(2)),
     Call("write_param", 1, 1, 0, StrParam("run_mode"), IntValue(3)),
     Call("write_param", 2, 2, 0, IntParam(RUN_MODE_ID), RunModeValue(0)),
     Call("write_param", 1, 1, 0, IntParam(RUN_MODE_ID), IntValue(256)),
     Call("write_param", 1, 1, 0, IntParam(RUN_MODE_ID), FloatValue(1, 1)),
     Call("write_param", 2, 1, 0, StrParam("run_mode"), NoneValue),
     Call("write_param", 2, 2, 0, StrParam("loc_ref"), FloatValue(-3, -1)),
     Call("write_param", 1, 1, 0, IntParam(28694), IntValue(2)),
     Call("write_param", 1, 1, 0, IntParam(28694), FloatValue(1, 128)),
     Call("write_param", 1, 1, 0, IntParam(28694), RunModeValue(2)),
     Call("write_param", 1, 1, 0, StrParam("nonexistent"), FloatValue(1, 1))}

\* Arbitration id of a response: type, status bits, motor id, host id.
RespId(msg_type, error_bits, mode_bit, motor_id, host) ==
    host + Shl(motor_id, 8) + Shl(error_bits, 16) + Shl(mode_bit, 22) + Shl(msg_type, 24)

Reading == <<128, 0, 255, 255, 0, 1, 1, 44>>      \* a feedback payload

RunModeEcho(m) == <<5, 112, 0, 0, m, 0, 0, 0>>    \* run_mode (0x7005) echoed, value m

MechvelEcho == <<27, 112, 0, 0, 0, 0, 192, 63>>   \* mechvel (0x701B) echoed, value 1.5

DataFrames ==
    {Message(RespId(MotorMsg_Feedback, 0, 0, m, DefaultHostCanId), d) :
        m \in {1, 2}, d \in {Reading, Zero8}}
    \cup {Message(RespId(MotorMsg_Feedback, 21, 1, 1, DefaultHostCanId), Reading),
          Message(RespId(MotorMsg_Feedback, 0, 0, 1, 85), Reading),
          Message(RespId(MotorMsg_WriteParam, 0, 0, 1, DefaultHostCanId), Reading),
          Message(RespId(MotorMsg_WriteParam, 0, 0, 2, DefaultHostCanId), Reading)}
    \cup {Message(RespId(MotorMsg_ReadParam, 0, 0, m, DefaultHostCanId), d) :
            m \in {1, 2}, d \in {RunModeEcho(2), MechvelEcho}}
    \cup {Message(RespId(MotorMsg_ReadParam, 0, 0, 1, DefaultHostCanId), RunModeEcho(7)),
          Message(RespId(MotorMsg_ReadParam, 0, 0, 1, 85), RunModeEcho(2))}

ErrorFrames == {ErrorFrame(1), ErrorFrame(4)}

Token(kind, req) == [kind |-> kind, req |-> req]

\* What the bus will deliver after a request: k error frames, then the reply
\* in time (data), late (none, data) or never.
Errs(k) == [i \in 1..k |-> "err"]

Scripts(n) ==
    {Errs(k) \o t : k \in 0..n, t \in {<<>>, <<"data">>, <<"none", "data">>}}
    \cap UNION {[1..k -> {"none", "err", "data"}] : k \in 0..n}

NoCodecIn == [message_type |-> -1, id_data_1 |-> -1, id_data_2 |-> -1]

NoCodecOut ==
    [msg_type |-> -1, msg_motor_id |-> -1, host_id |-> -1, error_bits |-> -1,
     mode_bit |-> -1]

(***************************************************************************)
(* The state machine.                                                      *)
(***************************************************************************)
InitClient ==
    /\ self_retry_count \in 0..MaxRetry
    /\ host_can_id = DefaultHostCanId
    /\ recv_count = 0
    /\ recv_error_count = 0
    /\ pc = "idle"
    /\ cur = NoCall
    /\ retry_count = 0
    /\ resp = NoFrame
    /\ result = NoResult
    /\ bus = <<>>
    /\ sent = <<>>
    /\ hist = <<>>
    /\ seq = 0
    /\ count_at_call = 0
    /\ error_count_at_call = 0

Init ==
    /\ InitClient
    /\ codec_in = NoCodecIn
    /\ codec_out = NoCodecOut

\* The operation is entered and raises before it sends anything.
FailEarly(c, exc) ==
    /\ pc = "idle"
    /\ seq < MaxOps
    /\ seq' = seq + 1
    /\ cur' = c
    /\ sent' = <<>>
    /\ hist' = <<>>
    /\ retry_count' = 0
    /\ resp' = NoFrame
    /\ result' = Raise(exc, NoFrame)
    /\ pc' = "done"
    /\ count_at_call' = recv_count
    /\ error_count_at_call' = recv_error_count
    /\ UNCHANGED <<self_retry_count, host_can_id, recv_count, recv_error_count, bus>>
    /\ UNCHANGED codec_vars

\* The operation is entered, calls bus.send(frame) and enters _recv
\* (retry_count = 0).  The environment decides what the bus delivers next.
SendAndRecv(c, frame) ==
    /\ pc = "idle"
    /\ seq < MaxOps
    /\ seq' = seq + 1
    /\ cur' = c
    /\ sent' = <<frame>>
    /\ \E script \in Scripts(MaxQueue - Len(bus)) :
          bus' = bus \o [i \in 1..Len(script) |-> Token(script[i], seq + 1)]
    /\ hist' = <<>>
    /\ retry_count' = 0
    /\ resp' = NoFrame
    /\ result' = NoResult
    /\ pc' = "recv"
    /\ count_at_call' = recv_count
    /\ error_count_at_call' = recv_error_count
    /\ UNCHANGED <<self_retry_count, host_can_id, recv_count, recv_error_count>>
    /\ UNCHANGED codec_vars

\* The frame each operation hands to bus.send.
enable_frame(host, motor_id) == rs_msg(MotorMsg_Enable, host, motor_id, Zero8)

disable_frame(host, motor_id) == rs_msg(MotorMsg_Disable, host, motor_id, Zero8)

\* Mutant: the new id is placed in id_data_2 and the motor id above the host id.
update_id_frame_swapped(host, motor_id, new_motor_id) ==
    rs_msg(MotorMsg_SetID, BitOr(host, Shl(motor_id, 8)), new_motor_id, Zero8)

update_id_frame(host, motor_id, new_motor_id) ==
    LET id_data_1 == BitOr(host, Shl(new_motor_id, 8))
    IN  rs_msg(MotorMsg_SetID, id_data_1, motor_id, Zero8)

read_param_frame(host, motor_id, data) ==
    rs_msg(MotorMsg_ReadParam, host, motor_id, data)

write_param_frame(host, motor_id, data) ==
    rs_msg(MotorMsg_WriteParam, host, motor_id, data)

enable ==
    \E c \in EnableCalls : SendAndRecv(c, enable_frame(host_can_id, c.motor_id))

disable ==
    \E c \in DisableCalls : SendAndRecv(c, disable_frame(host_can_id, c.motor_id))

update_id ==
    \E c \in UpdateIdCalls :
        SendAndRecv(c, update_id_frame(host_can_id, c.motor_id, c.new_motor_id))

\* read_param up to and including bus.send, for the call c.
read_param_call(c) ==
    LET n == normalize_param_id(c.param)
        data == read_param_data(n.id)
    IN  IF n.exc # "" THEN FailEarly(c, n.exc)
        ELSE SendAndRecv([c EXCEPT !.param_id = n.id],
                         read_param_frame(host_can_id, c.motor_id, data))

read_param == \E c \in ReadParamCalls : read_param_call(c)

\* write_param up to and including bus.send, for the call c.
write_param_call(c) ==
    LET n == normalize_param_id(c.param)
        d == write_param_data(n.id, c.value)
    IN  IF n.exc # "" THEN FailEarly(c, n.exc)
        ELSE IF d.exc # "" THEN FailEarly([c EXCEPT !.param_id = n.id], d.exc)
        ELSE SendAndRecv([c EXCEPT !.param_id = n.id],
                         write_param_frame(host_can_id, c.motor_id, d.data))

write_param == \E c \in WriteParamCalls : write_param_call(c)

\* What error_rate evaluates to: int / int raises ZeroDivisionError on 0.
error_rate_result(errors, count) ==
    IF count = 0 THEN Raise("ZeroDivisionError", NoFrame)
    ELSE Return(NoFeedback, RatioValue(errors, count))

\* Mutant: error_rate answers 0 when nothing was received yet.
error_rate_guarded ==
    /\ pc = "idle"
    /\ pc' = "done"
    /\ cur' = [NoCall EXCEPT !.op = "error_rate"]
    /\ result' = IF recv_count = 0 THEN Return(NoFeedback, RatioValue(0, 1))
                 ELSE error_rate_result(recv_error_count, recv_count)
    /\ UNCHANGED <<self_retry_count, host_can_id, recv_count, recv_error_count,
                   retry_count, resp, bus, sent, hist, seq, count_at_call,
                   error_count_at_call>>
    /\ UNCHANGED codec_vars

\* error_rate: reads the two counters, sends and receives nothing.
error_rate ==
    /\ pc = "idle"
    /\ pc' = "done"
    /\ cur' = [NoCall EXCEPT !.op = "error_rate"]
    /\ result' = error_rate_result(recv_error_count, recv_count)
    /\ UNCHANGED <<self_retry_count, host_can_id, recv_count, recv_error_count,
                   retry_count, resp, bus, sent, hist, seq, count_at_call,
                   error_count_at_call>>
    /\ UNCHANGED codec_vars

(***************************************************************************)
(* One iteration of the loop of _recv.                                     *)
(***************************************************************************)
NextToken == IF bus = <<>> THEN Token("none", 0) ELSE Head(bus)

Received(token, frame) == [kind |-> token.kind, req |-> token.req, frame |-> frame]

\* Mutant: the loop stops one attempt early (< for <=).
recv_loop_continues_strict(n, limit) == n < limit

\* Mutant: the loop allows one attempt more.
recv_loop_continues_extra(n, limit) == n <= limit + 1

\* `while retry_count <= self.retry_count`
recv_loop_continues(n, limit) == n <= limit

\* Mutant: every retry sends the request again before it receives.
RecvCommon_retransmit ==
    /\ pc = "recv"
    /\ recv_loop_continues(retry_count, self_retry_count)
    /\ recv_count' = recv_count + 1
    /\ bus' = IF bus = <<>> THEN <<>> ELSE Tail(bus)
    /\ sent' = IF retry_count > 0 THEN Append(sent, sent[1]) ELSE sent
    /\ UNCHANGED <<self_retry_count, host_can_id, cur, seq, count_at_call,
                   error_count_at_call>>
    /\ UNCHANGED codec_vars

RecvCommon ==
    /\ pc = "recv"
    /\ recv_loop_continues(retry_count, self_retry_count)
    /\ recv_count' = recv_count + 1
    /\ bus' = IF bus = <<>> THEN <<>> ELSE Tail(bus)
    /\ UNCHANGED <<self_retry_count, host_can_id, cur, sent, seq, count_at_call,
                   error_count_at_call>>
    /\ UNCHANGED codec_vars

\* Mutant: a timeout is retried like an error frame.
recv_none_retried ==
    /\ RecvCommon
    /\ NextToken.kind = "none"
    /\ resp' = NoFrame
    /\ hist' = Append(hist, Received(NextToken, NoFrame))
    /\ retry_count' = retry_count + 1
    /\ UNCHANGED recv_error_count
    /\ IF recv_loop_continues(retry_count + 1, self_retry_count)
       THEN pc' = "recv" /\ result' = result
       ELSE pc' = "done" /\ result' = Raise("No response from motor received", NoFrame)

\* bus.recv timed out: `if not resp: raise`
recv_none ==
    /\ RecvCommon
    /\ NextToken.kind = "none"
    /\ resp' = NoFrame
    /\ hist' = Append(hist, Received(NextToken, NoFrame))
    /\ result' = Raise("No response from motor received", NoFrame)
    /\ pc' = "done"
    /\ UNCHANGED <<retry_count, recv_error_count>>

\* Mutant: recv_error_count is incremented for every frame, before the
\* is_error_frame test.
recv_data_counted ==
    /\ RecvCommon
    /\ NextToken.kind = "data"
    /\ \E f \in DataFrames :
        /\ resp' = f
        /\ hist' = Append(hist, Received(NextToken, f))
        /\ result' = Finish(cur, f, host_can_id)
    /\ pc' = "done"
    /\ recv_error_count' = recv_error_count + 1
    /\ UNCHANGED retry_count

\* bus.recv returned a data frame: _recv returns it and the operation finishes
recv_data ==
    /\ RecvCommon
    /\ NextToken.kind = "data"
    /\ \E f \in DataFrames :
        /\ resp' = f
        /\ hist' = Append(hist, Received(NextToken, f))
        /\ result' = Finish(cur, f, host_can_id)
    /\ pc' = "done"
    /\ UNCHANGED <<retry_count, recv_error_count>>

\* bus.recv returned an error frame: count it, then retry or give up
recv_error ==
    /\ RecvCommon
    /\ NextToken.kind = "err"
    /\ \E f \in ErrorFrames :
        /\ resp' = f
        /\ hist' = Append(hist, Received(NextToken, f))
        /\ retry_count' = retry_count + 1
        /\ recv_error_count' = recv_error_count + 1
        /\ IF recv_loop_continues(retry_count + 1, self_retry_count)
           THEN pc' = "recv" /\ result' = result
           ELSE pc' = "done" /\ result' = Raise("Error reading resp:", f)

\* The operation has returned or raised: its locals are gone, the client's
\* counters and whatever the bus still holds stay.
return_to_caller ==
    /\ pc = "done"
    /\ pc' = "idle"
    /\ cur' = NoCall
    /\ retry_count' = 0
    /\ resp' = NoFrame
    /\ result' = NoResult
    /\ sent' = <<>>
    /\ hist' = <<>>
    /\ count_at_call' = recv_count
    /\ error_count_at_call' = recv_error_count
    /\ UNCHANGED <<self_retry_count, host_can_id, recv_count, recv_error_count, bus, seq>>
    /\ UNCHANGED codec_vars

Next ==
    \/ enable
    \/ disable
    \/ update_id
    \/ read_param
    \/ write_param
    \/ error_rate
    \/ recv_none
    \/ recv_data
    \/ recv_error
    \/ return_to_caller

Spec == Init /\ [][Next]_vars

(***************************************************************************)
(* The codec bench: the encoder of _rs_msg followed by the decoders, on    *)
(* message types 0..31 and sample bytes.                                   *)
(***************************************************************************)
ByteSamples == {0, 1, 2, 127, 128, 170, 254, 255}

InitCodec ==
    /\ InitClient
    /\ codec_in \in [message_type : 0..31, id_data_1 : ByteSamples, id_data_2 : ByteSamples]
    /\ codec_out = NoCodecOut

codec_roundtrip ==
    /\ codec_out = NoCodecOut
    /\ LET aid == rs_msg(codec_in.message_type, codec_in.id_data_1, codec_in.id_data_2,
                         Zero8).arbitration_id
           p == parse_resp_abitration_id(aid)
       IN  codec_out' = [msg_type |-> p.msg_type, msg_motor_id |-> p.msg_motor_id,
                         host_id |-> p.host_id, error_bits |-> error_bits_of(aid),
                         mode_bit |-> mode_bit_of(aid)]
    /\ UNCHANGED <<client_vars, codec_in>>

NextCodec == codec_roundtrip

SpecCodec == InitCodec /\ [][NextCodec]_vars

(***************************************************************************)
(* The request frames.  The frame that the drawn operation hands to        *)
(* bus.send is built for the drawn host_can_id (the constructor argument), *)
(* motor_id and new_motor_id, and recorded.  The samples hold bytes and    *)
(* values that do not fit in one byte.                                     *)
(***************************************************************************)
FrameOps == {"enable", "disable", "update_id", "read_param", "write_param"}

MotorIdSamples == ByteSamples \cup {256, 65536, 16777216, 536870912}

NewMotorIdSamples == ByteSamples \cup {256, 8192}

HostCanIdSamples == ByteSamples \cup {256, 65536}

InitFrames ==
    /\ InitClient
    /\ codec_in \in [op : FrameOps, motor_id : MotorIdSamples,
                     new_motor_id : NewMotorIdSamples, host_can_id : HostCanIdSamples]
    /\ codec_out = NoFrame

frame_of(op, host, motor_id, new_motor_id) ==
    CASE op = "enable" -> enable_frame(host, motor_id)
      [] op = "disable" -> disable_frame(host, motor_id)
      [] op = "update_id" -> update_id_frame(host, motor_id, new_motor_id)
      [] op = "read_param" ->
            read_param_frame(host, motor_id, read_param_data(RUN_MODE_ID))
      [] op = "write_param" ->
            write_param_frame(host, motor_id,
                              write_param_data(RUN_MODE_ID, IntValue(1)).data)

build_frame ==
    /\ codec_out = NoFrame
    /\ codec_out' = frame_of(codec_in.op, codec_in.host_can_id, codec_in.motor_id,
                             codec_in.new_motor_id)
    /\ UNCHANGED <<client_vars, codec_in>>

NextFrames == build_frame

SpecFrames == InitFrames /\ [][NextFrames]_vars

(***************************************************************************)
(* Feedback decoding.  A feedback reply from motor 1 to the host is drawn  *)
(* and decoded once with motor_model = 1 and once with another             *)
(* motor_model.  SpecFeedback draws every raw 16-bit reading (as velocity  *)
(* and as torque) with clear status bits; SpecStatus draws every value of  *)
(* bits 16-23 of the identifier with three readings.                       *)
(***************************************************************************)
MaxRaw == 65535         \* largest value of an unsigned 16-bit field ('>H')

MaxStatus == 255        \* bits 16-23 of the identifier

OtherModels == {0, 2}

FeedbackInputs == {[raw |-> r, status |-> 0] : r \in 0..MaxRaw}

StatusInputs == [raw : {0, 32768, MaxRaw}, status : 0..MaxStatus]

FeedbackFrame(raw, status) ==
    Message(DefaultHostCanId + Shl(1, 8) + Shl(status, 16) + Shl(MotorMsg_Feedback, 24),
            <<0, 0, raw \div 256, raw % 256, raw \div 256, raw % 256, 0, 0>>)

NoDecoded == [model_1 |-> NoResult, other |-> NoResult]

InitFeedback ==
    /\ self_retry_count = 0         \* the decoder does not read retry_count
    /\ InitClient
    /\ codec_in \in FeedbackInputs
    /\ codec_out = NoDecoded

decode_feedback ==
    /\ codec_out = NoDecoded
    /\ \E m \in OtherModels :
          LET r == FeedbackFrame(codec_in.raw, codec_in.status)
          IN  codec_out' = [model_1 |-> parse_feedback_resp(r, 1, 1, host_can_id),
                            other |-> parse_feedback_resp(r, 1, m, host_can_id)]
    /\ UNCHANGED <<client_vars, codec_in>>

NextFeedback == decode_feedback

SpecFeedback == InitFeedback /\ [][NextFeedback]_vars

InitStatus ==
    /\ InitClient
    /\ codec_in \in StatusInputs
    /\ codec_out = NoDecoded

SpecStatus == InitStatus /\ [][NextFeedback]_vars

(***************************************************************************)
(* Parameter normalisation.  The param_id argument is drawn once: each     *)
(* name of the table, names that are not in it, and integers inside and    *)
(* outside the table.  The client then runs read_param and write_param     *)
(* with that argument, among enable operations on motor 1.                 *)
(***************************************************************************)
UnknownNames == {"nonexistent", "RUN_MODE"}

IntParamSamples == {0, 28677, 28678, 65535}

ParamArgs ==
    {StrParam(n) : n \in ParamNames \cup UnknownNames}
        \cup {IntParam(i) : i \in IntParamSamples}

InitParams ==
    /\ InitClient
    /\ codec_in \in ParamArgs
    /\ codec_out = NoCodecOut

enable_motor_1 ==
    LET c == Call("enable", 1, 1, 0, IntParam(0), NoneValue)
    IN  SendAndRecv(c, enable_frame(host_can_id, c.motor_id))

read_param_arg ==
    read_param_call(Call("read_param", 1, 0, 0, codec_in, NoneValue))

write_param_arg ==
    write_param_call(Call("write_param", 1, 1, 0, codec_in, IntValue(1)))

NextParams ==
    \/ enable_motor_1
    \/ read_param_arg
    \/ write_param_arg
    \/ recv_none
    \/ recv_data
    \/ recv_error
    \/ return_to_caller

SpecParams == InitParams /\ [][NextParams]_vars

(***************************************************************************)
(* The error kinds of the specification, as the exceptions of the code.    *)
(***************************************************************************)
NoResponse == "No response from motor received"

ReceiveExhausted == "Error reading resp:"

ProtocolMismatch == {"Invalid msg_type", "Invalid host CAN ID", "Invalid motor ID received"}

ParamMismatch == "Invalid param id"

UnknownParameter == "KeyError"

DocumentedErrors ==
    {NoResponse, ReceiveExhausted, ParamMismatch, UnknownParameter} \cup ProtocolMismatch

(***************************************************************************)
(* Vocabulary of the properties.                                           *)
(***************************************************************************)
Done == pc = "done"

Raised(exc) == Done /\ result.status = "raise" /\ result.exc = exc

Returned == Done /\ result.status = "return"

\* What the bus held for the running operation when it entered _recv
Delivery == [i \in 1..Len(hist) |-> hist[i].kind] \o [i \in 1..Len(bus) |-> bus[i].kind]

\* The first k results are error frames and the next one is a data frame
ErrorsThenData(k) ==
    /\ k + 1 <= Len(Delivery)
    /\ \A i \in 1..k : Delivery[i] = "err"
    /\ Delivery[k + 1] = "data"

\* _recv returned a frame to the operation
RecvSucceeded ==
    /\ Done
    /\ hist # <<>>
    /\ hist[Len(hist)].kind = "data"
    /\ ~(result.status = "raise" /\ result.exc \in {NoResponse, ReceiveExhausted})

RecvCalls == recv_count - count_at_call

RecvErrors == recv_error_count - error_count_at_call

(***************************************************************************)
(* C1  Retry bound.  When the bus delivers k error frames and then a data  *)
(* frame to an operation of a client with retry_count = n, _recv succeeds  *)
(* if and only if k <= n and then recv_error_count has grown by k; when    *)
(* k > n the operation fails with ReceiveExhausted and recv_error_count    *)
(* has grown by n + 1.                                                     *)
(***************************************************************************)
C1_RetryBound ==
    (Done /\ sent # <<>>) =>
        \A k \in 0..MaxQueue :
            ErrorsThenData(k) =>
                IF k <= self_retry_count
                THEN RecvSucceeded /\ RecvErrors = k
                ELSE /\ Raised(ReceiveExhausted)
                     /\ ~RecvSucceeded
                     /\ RecvErrors = self_retry_count + 1

\* One error frame, one retry, and the retry gets the data frame.
C1_Witness ==
    /\ Done
    /\ self_retry_count = 1
    /\ ErrorsThenData(1)
    /\ RecvSucceeded
    /\ RecvErrors = 1

(***************************************************************************)
(* C2  Timeouts are never retried.  A bus.recv that returns no frame is    *)
(* the last receive call of its operation, whatever came before it and     *)
(* however many retries remain: the operation fails with NoResponse; the   *)
(* attempt adds 1 to recv_count and nothing to recv_error_count.           *)
(***************************************************************************)
C2_TimeoutNotRetried ==
    /\ \A i \in 1..Len(hist) :
          hist[i].kind = "none" =>
              /\ i = Len(hist)
              /\ Raised(NoResponse)
              /\ RecvCalls = i
              /\ RecvErrors = i - 1
    /\ Raised(NoResponse) => (hist # <<>> /\ hist[Len(hist)].kind = "none")

\* A timeout after an error frame, with a retry still allowed.
C2_Witness ==
    /\ Raised(NoResponse)
    /\ Len(hist) = 2
    /\ hist[1].kind = "err"
    /\ hist[2].kind = "none"
    /\ retry_count <= self_retry_count
    /\ RecvCalls = 2
    /\ RecvErrors = 1

(***************************************************************************)
(* C3  _recv makes at most retry_count + 1 calls of bus.recv; it makes     *)
(* exactly retry_count + 1 when it ends in ReceiveExhausted, and that      *)
(* exception carries the error frame of the last call.  recv_count grows   *)
(* by one per call.                                                        *)
(***************************************************************************)
C3_BoundedAttempts ==
    /\ RecvCalls = Len(hist)
    /\ Len(hist) <= self_retry_count + 1
    /\ pc = "recv" => Len(hist) <= self_retry_count
    /\ Raised(ReceiveExhausted) =>
          /\ Len(hist) = self_retry_count + 1
          /\ \A i \in 1..Len(hist) : hist[i].kind = "err"
          /\ result.arg = hist[Len(hist)].frame
          /\ result.arg.is_error_frame

\* Two attempts, both error frames, the second frame differing from the first.
C3_Witness ==
    /\ Raised(ReceiveExhausted)
    /\ self_retry_count = 1
    /\ Len(hist) = 2
    /\ hist[1].frame # hist[2].frame
    /\ result.arg = hist[2].frame

(***************************************************************************)
(* The fields of a response identifier, by arithmetic on the identifier.   *)
(***************************************************************************)
TypeOf(f) == (f.arbitration_id \div 16777216) % 32

MotorIdOf(f) == (f.arbitration_id \div 256) % 256

HostIdOf(f) == f.arbitration_id % 256

\* The operation received a data frame from _recv
GotDataFrame ==
    /\ Done
    /\ hist # <<>>
    /\ hist[Len(hist)].kind = "data"
    /\ resp = hist[Len(hist)].frame

RaisedProtocolMismatch ==
    Done /\ result.status = "raise" /\ result.exc \in ProtocolMismatch

(***************************************************************************)
(* C4  Mismatch detection.  As stated: in each of enable, disable,         *)
(* update_id, read_param and write_param, a data frame whose decoded       *)
(* motor id differs from the requested motor id makes the operation fail   *)
(* with ProtocolMismatch.                                                  *)
(***************************************************************************)
C4_AsStated ==
    (GotDataFrame /\ MotorIdOf(resp) # cur.motor_id) => RaisedProtocolMismatch

\* C4 as amended: the same for enable, disable, read_param and write_param;
\* update_id does not look at the frame it receives.
C4_MismatchDetection ==
    (/\ GotDataFrame
     /\ cur.op \in {"enable", "disable", "read_param", "write_param"}
     /\ MotorIdOf(resp) # cur.motor_id)
        => RaisedProtocolMismatch

\* Type and host id are the expected ones, only the motor id differs.
C4_Witness ==
    /\ GotDataFrame
    /\ cur.op = "read_param"
    /\ TypeOf(resp) = MotorMsg_ReadParam
    /\ HostIdOf(resp) = host_can_id
    /\ MotorIdOf(resp) # cur.motor_id
    /\ struct_unpack_H_le(SubSeq(resp.data, 1, 2)) = cur.param_id
    /\ Raised("Invalid motor ID received")

(***************************************************************************)
(* C5  Requests and responses are matched in issue order: an operation     *)
(* that succeeds has accepted the reply to its own request, never a frame  *)
(* the bus still held for an earlier request.                              *)
(***************************************************************************)
C5_MatchedInIssueOrder ==
    (Returned /\ hist # <<>>) => hist[Len(hist)].req = seq

(***************************************************************************)
(* C6  Arbitration-id round trip.  As stated: decoding the identifier      *)
(* built from (message_type, id_data_1, id_data_2) gives message_type,     *)
(* host_id = id_data_1, motor_id = id_data_2, error_bits = 0, mode_bit = 0.*)
(***************************************************************************)
C6_AsStated ==
    codec_out # NoCodecOut =>
        /\ codec_out.msg_type = codec_in.message_type
        /\ codec_out.host_id = codec_in.id_data_1
        /\ codec_out.msg_motor_id = codec_in.id_data_2
        /\ codec_out.error_bits = 0
        /\ codec_out.mode_bit = 0

\* C6 as amended: the decoder reads host_id from the low byte, which the
\* encoder fills with id_data_2, and motor_id from the second byte, which the
\* encoder fills with id_data_1.
C6_RoundTrip ==
    codec_out # NoCodecOut =>
        /\ codec_out.msg_type = codec_in.message_type
        /\ codec_out.host_id = codec_in.id_data_2
        /\ codec_out.msg_motor_id = codec_in.id_data_1
        /\ codec_out.error_bits = 0
        /\ codec_out.mode_bit = 0

C6_Witness ==
    /\ codec_in = [message_type |-> 31, id_data_1 |-> 170, id_data_2 |-> 255]
    /\ codec_out.msg_type = 31
    /\ codec_out.msg_motor_id = 170
    /\ codec_out.host_id = 255

(***************************************************************************)
(* C7  A closed set of failures: whatever the bus delivers to it, an       *)
(* operation returns its value or fails with NoResponse,                   *)
(* ReceiveExhausted, ProtocolMismatch, ParamMismatch or UnknownParameter,  *)
(* and with nothing else.                                                  *)
(***************************************************************************)
C7_ClosedFailures ==
    (Done /\ hist # <<>>) =>
        \/ result.status = "return"
        \/ result.status = "raise" /\ result.exc \in DocumentedErrors

(***************************************************************************)
(* C8  Expected response type.  enable, disable and write_param return a   *)
(* FeedbackResp only for a frame of type Feedback whose low byte is        *)
(* host_can_id and whose second byte is the requested motor id; read_param *)
(* returns only for such a frame of type ReadParam.  A write_param reply   *)
(* of type WriteParam fails with ProtocolMismatch.                         *)
(***************************************************************************)
C8_ExpectedResponseType ==
    /\ (Returned /\ cur.op \in {"enable", "disable", "write_param"}) =>
          /\ GotDataFrame
          /\ result.feedback # NoFeedback
          /\ TypeOf(resp) = 2
          /\ HostIdOf(resp) = host_can_id
          /\ MotorIdOf(resp) = cur.motor_id
    /\ (Returned /\ cur.op = "read_param") =>
          /\ GotDataFrame
          /\ TypeOf(resp) = 17
          /\ HostIdOf(resp) = host_can_id
          /\ MotorIdOf(resp) = cur.motor_id
    /\ (GotDataFrame /\ cur.op = "write_param" /\ TypeOf(resp) = 18) =>
          RaisedProtocolMismatch

\* write_param answered by a WriteParam frame of the right host and motor.
C8_Witness ==
    /\ GotDataFrame
    /\ cur.op = "write_param"
    /\ TypeOf(resp) = 18
    /\ HostIdOf(resp) = host_can_id
    /\ MotorIdOf(resp) = cur.motor_id
    /\ Raised("Invalid msg_type")

(***************************************************************************)
(* C9  The echo check of read_param.  A response that passes the           *)
(* arbitration-id validation but echoes another parameter id fails with    *)
(* ParamMismatch and gives no value; a wrong arbitration id is reported    *)
(* as ProtocolMismatch whatever the echo is; bytes 4-7 are decoded only    *)
(* when both checks pass.                                                  *)
(***************************************************************************)
IdAccepted(f, msg_type) ==
    /\ TypeOf(f) = msg_type
    /\ HostIdOf(f) = host_can_id
    /\ MotorIdOf(f) = cur.motor_id

EchoOf(f) == f.data[1] + 256 * f.data[2]

C9_EchoCheck ==
    (GotDataFrame /\ cur.op = "read_param") =>
        /\ (IdAccepted(resp, 17) /\ EchoOf(resp) # cur.param_id) =>
              (Raised(ParamMismatch) /\ result.value = NoneValue)
        /\ ~IdAccepted(resp, 17) => RaisedProtocolMismatch
        /\ (Returned \/ Raised("ValueError") \/ result.value # NoneValue) =>
              (IdAccepted(resp, 17) /\ EchoOf(resp) = cur.param_id)

C9_Witness ==
    /\ GotDataFrame
    /\ cur.op = "read_param"
    /\ IdAccepted(resp, 17)
    /\ EchoOf(resp) # cur.param_id
    /\ Raised(ParamMismatch)

(***************************************************************************)
(* C10  run_mode special encoding.  As stated: write_param on parameter    *)
(* 0x7005 with a RunMode or integer value m sends the payload              *)
(* [0x05, 0x70, 0, 0, m, 0, 0, 0], never the float encoding of m.          *)
(***************************************************************************)
RunModePayload(m) == <<5, 112, 0, 0, m, 0, 0, 0>>

\* Test vectors of the binary32 little-endian encoding.
Float32LE(x) ==
    IF x.t \in {"int", "RunMode"}
    THEN CASE x.v = 0 -> <<0, 0, 0, 0>>
           [] x.v = 2 -> <<0, 0, 0, 64>>
           [] x.v = 3 -> <<0, 0, 64, 64>>
           [] OTHER -> <<>>
    ELSE CASE x = FloatValue(1, 1) -> <<0, 0, 0, 64>>
           [] x = FloatValue(-3, -1) -> <<0, 0, 192, 191>>
           [] OTHER -> <<>>

WritesRunMode ==
    /\ Done
    /\ cur.op = "write_param"
    /\ cur.param_id = RUN_MODE_ID
    /\ cur.value.t \in {"RunMode", "int"}

C10_AsStated ==
    WritesRunMode =>
        /\ Len(sent) = 1
        /\ sent[1].data = RunModePayload(cur.value.v)
        /\ SubSeq(sent[1].data, 5, 8) # Float32LE(cur.value)

\* C10 as amended: m is in 0..255 (a larger integer raises ValueError and
\* nothing is sent), and [m, 0, 0, 0] differs from the float encoding for
\* m # 0.  For every other parameter id a frame that is sent carries the
\* parameter id in bytes 0-1, zeros in bytes 2-3 and the float encoding of
\* the value in bytes 4-7.
C10_RunModeEncoding ==
    /\ (WritesRunMode /\ cur.value.v \in 0..255) =>
          /\ Len(sent) = 1
          /\ sent[1].data = RunModePayload(cur.value.v)
          /\ cur.value.v # 0 => SubSeq(sent[1].data, 5, 8) # Float32LE(cur.value)
    /\ (WritesRunMode /\ cur.value.v \notin 0..255) =>
          (sent = <<>> /\ Raised("ValueError"))
    /\ (cur.op = "write_param" /\ cur.param_id # RUN_MODE_ID /\ sent # <<>>) =>
          /\ Len(sent) = 1
          /\ Len(sent[1].data) = 8
          /\ sent[1].data[1] + 256 * sent[1].data[2] = cur.param_id
          /\ sent[1].data[3] = 0
          /\ sent[1].data[4] = 0
          /\ SubSeq(sent[1].data, 5, 8) = Float32LE(cur.value)
          /\ struct_unpack_f(SubSeq(sent[1].data, 5, 8)) = Normalise(cur.value.v, cur.value.e)

\* write_param(1, "run_mode", 3) has sent [5, 0x70, 0, 0, 3, 0, 0, 0].
C10_Witness ==
    /\ WritesRunMode
    /\ cur.param = StrParam("run_mode")
    /\ cur.value = IntValue(3)
    /\ Len(sent) = 1
    /\ sent[1].data = <<5, 112, 0, 0, 3, 0, 0, 0>>

\* write_param(2, "loc_ref", -1.5) has sent the float encoding of -1.5.
C10_WitnessFloat ==
    /\ Done
    /\ cur.op = "write_param"
    /\ cur.value = FloatValue(-3, -1)
    /\ Len(sent) = 1
    /\ sent[1].data = <<22, 112, 0, 0, 0, 0, 192, 191>>

(***************************************************************************)
(* C11  Statistics counters.  No step of any operation decreases           *)
(* recv_count or recv_error_count.  error_rate raises ZeroDivisionError    *)
(* exactly when recv_count is 0, otherwise it returns                      *)
(* recv_error_count / recv_count; it changes nothing of the client.        *)
(***************************************************************************)
ErrorRateStep == pc = "idle" /\ cur'.op = "error_rate"

C11_Counters ==
    [][/\ recv_count' >= recv_count
       /\ recv_error_count' >= recv_error_count
       /\ ErrorRateStep =>
            /\ UNCHANGED <<self_retry_count, host_can_id, recv_count,
                           recv_error_count, bus, sent>>
            /\ pc' = "done"
            /\ (recv_count = 0) <=>
                  (result'.status = "raise" /\ result'.exc = "ZeroDivisionError")
            /\ (recv_count # 0) <=>
                  (/\ result'.status = "return"
                   /\ result'.value = RatioValue(recv_error_count, recv_count))]_vars

\* error_rate after two receive attempts, one of them an error frame: 1/2.
C11_Witness ==
    /\ Done
    /\ cur.op = "error_rate"
    /\ recv_count = 2
    /\ recv_error_count = 1
    /\ result.status = "return"
    /\ result.value = RatioValue(1, 2)

\* error_rate on a client that never called bus.recv.
C11_WitnessZero ==
    /\ Done
    /\ cur.op = "error_rate"
    /\ recv_count = 0
    /\ result.status = "raise"
    /\ result.exc = "ZeroDivisionError"

(***************************************************************************)
(* C12  Parameter normalisation.  Each of the 18 registered names is       *)
(* replaced by its table id (run_mode by 0x7005, mechvel by 0x701B), an    *)
(* integer is used as it is, and a name that is not in the table raises    *)
(* UnknownParameter.  When read_param or write_param fails this way it     *)
(* has sent no frame, has not called bus.recv and has left both counters   *)
(* as they were.                                                           *)
(***************************************************************************)
ParamOp == cur.op \in {"read_param", "write_param"}

\* bytes 0-1 of the request payload, little-endian
SentParamId == sent[1].data[1] + 256 * sent[1].data[2]

C12_Normalization ==
    /\ Cardinality(ParamNames) = 18
    /\ ParamOp =>
         /\ (cur.param.t = "str" /\ cur.param.s \in ParamNames) =>
               /\ ~Raised(UnknownParameter)
               /\ cur.param_id = param_ids_by_name[cur.param.s]
               /\ cur.param.s = "run_mode" => cur.param_id = 28677
               /\ cur.param.s = "mechvel" => cur.param_id = 28699
         /\ cur.param.t = "int" =>
               /\ ~Raised(UnknownParameter)
               /\ cur.param_id = cur.param.i
         /\ (cur.param.t = "str" /\ cur.param.s \notin ParamNames) =>
               Raised(UnknownParameter)
         /\ sent # <<>> => SentParamId = cur.param_id
         /\ Raised(UnknownParameter) =>
               /\ sent = <<>>
               /\ hist = <<>>
               /\ recv_count = count_at_call
               /\ recv_error_count = error_count_at_call

\* write_param with an unknown name, on a client whose earlier operation
\* has received an error frame: nothing sent, counters as before the call.
C12_Witness ==
    /\ Raised(UnknownParameter)
    /\ cur.op = "write_param"
    /\ cur.param = StrParam("nonexistent")
    /\ recv_error_count > 0
    /\ sent = <<>>

\* a registered name on the wire
C12_WitnessName ==
    /\ ParamOp
    /\ cur.param = StrParam("mechvel")
    /\ sent # <<>>
    /\ SentParamId = 28699

(***************************************************************************)
(* C13  Identifier width.  For any non-negative motor_id, new_motor_id     *)
(* and host_can_id, also above 255, the identifier of the frame an         *)
(* operation sends is below 2^29 and its bits 24-28 are the message type   *)
(* of that operation.                                                      *)
(***************************************************************************)
MsgTypeOfOp(op) ==
    CASE op = "enable" -> MotorMsg_Enable
      [] op = "disable" -> MotorMsg_Disable
      [] op = "update_id" -> MotorMsg_SetID
      [] op = "read_param" -> MotorMsg_ReadParam
      [] op = "write_param" -> MotorMsg_WriteParam

FrameBuilt == codec_out # NoFrame

C13_IdentifierWidth ==
    FrameBuilt =>
        /\ codec_out.arbitration_id < 2^29
        /\ (codec_out.arbitration_id \div 2^24) % 32 = MsgTypeOfOp(codec_in.op)

(***************************************************************************)
(* C14  Velocity and torque depend on the motor model.  For every raw      *)
(* 16-bit value r the velocity decoded with motor_model = 1,               *)
(* r/65535*88 - 44, differs from the one decoded with another model,       *)
(* r/65535*30 - 15, and the torque r/65535*34 - 17 differs from            *)
(* r/65535*240 - 120.  The readings are exact fractions over 65535.        *)
(***************************************************************************)
Decoded == codec_out # NoDecoded

C14_ModelDependence ==
    Decoded =>
        LET a == codec_out.model_1.feedback
            b == codec_out.other.feedback
            r == codec_in.raw
        IN  /\ codec_out.model_1.status = "return"
            /\ codec_out.other.status = "return"
            /\ a.velocity = <<88 * r - 44 * 65535, 65535>>
            /\ b.velocity = <<30 * r - 15 * 65535, 65535>>
            /\ a.torque = <<34 * r - 17 * 65535, 65535>>
            /\ b.torque = <<240 * r - 120 * 65535, 65535>>
            /\ a.velocity[1] # b.velocity[1]
            /\ a.torque[1] # b.torque[1]

\* the two raw values next to the crossing point r = 32767.5 are decoded
C14_Witness ==
    /\ Decoded
    /\ codec_in.raw = 32767
    /\ codec_out.model_1.feedback.velocity[1] = -44
    /\ codec_out.other.feedback.velocity[1] = -15

(***************************************************************************)
(* C15  update_id fails only through _recv.  It always sends its SetID     *)
(* frame; once _recv returns a frame that is not an error frame it         *)
(* returns, whatever the identifier and payload of that frame are; its     *)
(* only failures are NoResponse and ReceiveExhausted.                      *)
(***************************************************************************)
C15_UpdateIdOutcomes ==
    (Done /\ cur.op = "update_id") =>
        /\ Len(sent) = 1
        /\ TypeOf(sent[1]) = MotorMsg_SetID
        /\ Returned \/ Raised(NoResponse) \/ Raised(ReceiveExhausted)
        /\ Returned <=> (hist # <<>> /\ hist[Len(hist)].kind = "data")
        /\ Raised(NoResponse) <=> (hist # <<>> /\ hist[Len(hist)].kind = "none")
        /\ Raised(ReceiveExhausted) <=>
              (/\ Len(hist) = self_retry_count + 1
               /\ \A i \in 1..Len(hist) : hist[i].kind = "err")

\* update_id returns on a ReadParam reply from another motor, after an error frame
C15_Witness ==
    /\ Returned
    /\ cur.op = "update_id"
    /\ Len(hist) = 2
    /\ hist[1].kind = "err"
    /\ resp = hist[2].frame
    /\ TypeOf(resp) # MotorMsg_Feedback
    /\ MotorIdOf(resp) # cur.motor_id

(***************************************************************************)
(* C16  One send per transaction.  As stated: each of enable, disable,     *)
(* update_id, read_param and write_param that passes parameter             *)
(* normalisation sends exactly one frame.                                  *)
(***************************************************************************)
InTransaction == cur.op \in FrameOps /\ pc \in {"recv", "done"}

NormalizationFailed == ParamOp /\ normalize_param_id(cur.param).exc # ""

PayloadRejected ==
    /\ cur.op = "write_param"
    /\ ~NormalizationFailed
    /\ write_param_data(normalize_param_id(cur.param).id, cur.value).exc # ""

IdsAreBytes ==
    /\ codec_in.motor_id \in 0..255
    /\ codec_in.new_motor_id \in 0..255
    /\ codec_in.host_can_id \in 0..255

C17_FrameLayout ==
    (FrameBuilt /\ IdsAreBytes) =>
        LET id == codec_out.arbitration_id
        IN  /\ id % 256 = codec_in.motor_id
            /\ (id \div 256) % 256 = codec_in.host_can_id
            /\ (id \div 65536) % 256 =
                  (IF codec_in.op = "update_id" THEN codec_in.new_motor_id ELSE 0)
            /\ (id \div 16777216) % 32 = MsgTypeOfOp(codec_in.op)
            /\ id < 536870912
            /\ codec_in.op = "update_id" =>
                  (MsgTypeOfOp(codec_in.op) = 7 /\ codec_out.data = Zero8)

\* update_id(1, 254) with host 0xAA sends 0x07FEAA01
C17_Witness ==
    /\ FrameBuilt
    /\ codec_in = [op |-> "update_id", motor_id |-> 1, new_motor_id |-> 254,
                   host_can_id |-> 170]
    /\ codec_out.arbitration_id = 134130177
    /\ codec_out.data = Zero8

(***************************************************************************)
(* C18  Feedback status decoding.  For a validated feedback identifier the *)
(* decoded errors are exactly the flags f of {1, 2, 4, 8, 16, 32} with     *)
(* f & ((id >> 16) & 0x1F) # 0, each once, and the mode is                 *)
(* (id >> 22) & 1.  So Uncalibrated (32) and Run (2) are never produced,   *)
(* bits 21 and 23 of the identifier do not change the result, and the      *)
(* step does not fail.                                                     *)
(***************************************************************************)
StatusBit(st, n) == (st \div 2^n) % 2      \* bit 16 + n of the identifier

ErrorsOf(fb) == {fb.errors[i] : i \in 1..Len(fb.errors)}

C18_StatusDecoding ==
    Decoded =>
        LET st == codec_in.status
            fb == codec_out.model_1.feedback
            cleared == st - 32 * StatusBit(st, 5) - 128 * StatusBit(st, 7)
            same == parse_feedback_resp(FeedbackFrame(codec_in.raw, cleared), 1, 1,
                                        host_can_id).feedback
        IN  /\ codec_out.model_1.status = "return"
            /\ codec_out.other.status = "return"
            /\ ErrorsOf(fb) = {2^n : n \in {k \in 0..4 : StatusBit(st, k) = 1}}
            /\ Cardinality(ErrorsOf(fb)) = Len(fb.errors)
            /\ 32 \notin ErrorsOf(fb)
            /\ fb.mode = StatusBit(st, 6)
            /\ fb.mode # 2
            /\ fb.errors = same.errors
            /\ fb.mode = same.mode
            /\ codec_out.other.feedback.errors = fb.errors
            /\ codec_out.other.feedback.mode = fb.mode

\* all of bits 16-23 set: five flags, no Uncalibrated, mode Calibration
C18_Witness ==
    /\ Decoded
    /\ codec_in.status = 255
    /\ codec_out.model_1.feedback.errors = <<1, 2, 4, 8, 16>>
    /\ codec_out.model_1.feedback.mode = 1

(***************************************************************************)
(* C19  In every reachable state 0 <= recv_error_count <= recv_count, so   *)
(* a value returned by error_rate lies between 0 and 1.  The two counters  *)
(* are equal only while every bus.recv call so far has returned an error   *)
(* frame: a call that returns nothing or a data frame leaves               *)
(* recv_error_count below recv_count, and it stays below from then on.     *)
(***************************************************************************)
CountersOrdered == 0 <= recv_error_count /\ recv_error_count <= recv_count

ReceivedNoError ==
    /\ recv_count' = recv_count + 1
    /\ hist'[Len(hist')].kind # "err"

C19_CounterOrder ==
    /\ []CountersOrdered
    /\ [][/\ ReceivedNoError => recv_error_count' < recv_count'
          /\ recv_error_count < recv_count => recv_error_count' < recv_count'
          /\ (ErrorRateStep /\ result'.status = "return") =>
                /\ result'.value.e > 0
                /\ 0 <= result'.value.v
                /\ result'.value.v <= result'.value.e]_vars

\* two receive attempts, both error frames: the counters are equal and
\* error_rate is 1
C19_Witness ==
    /\ Done
    /\ cur.op = "error_rate"
    /\ recv_count = 2
    /\ recv_error_count = 2
    /\ result.value = RatioValue(2, 2)

\* a data frame after an error frame: the error count is strictly below
C19_WitnessBelow ==
    /\ GotDataFrame
    /\ Len(hist) = 2
    /\ hist[1].kind = "err"
    /\ recv_error_count = 1
    /\ recv_count = 2

(***************************************************************************)
(* C20  write_param on run_mode (0x7005) with a value that is neither a    *)
(* RunMode nor an integer, such as the float the command line passes,      *)
(* fails before anything is sent: no frame, no bus.recv call, both         *)
(* counters as before the call, and the exception is none of the           *)
(* documented error kinds.                                                 *)
(***************************************************************************)
RunModeOfOtherType ==
    /\ cur.op = "write_param"
    /\ normalize_param_id(cur.param) = [exc |-> "", id |-> RUN_MODE_ID]
    /\ cur.value.t \notin {"RunMode", "int"}

C20_RunModeTypeFailure ==
    RunModeOfOtherType =>
        /\ Done
        /\ result.status = "raise"
        /\ result.exc \notin DocumentedErrors
        /\ sent = <<>>
        /\ hist = <<>>
        /\ recv_count = count_at_call
        /\ recv_error_count = error_count_at_call

\* write_param(1, 0x7005, 2.0), as the command line calls it, on a client that
\* has received frames before
C20_Witness ==
    /\ RunModeOfOtherType
    /\ cur.param = IntParam(RUN_MODE_ID)
    /\ cur.value = FloatValue(1, 1)
    /\ result.exc = "UnboundLocalError"
    /\ recv_count > 0
    /\ sent = <<>>

====
